---- MODULE Spec2Model ----
(***************************************************************************)
(* Label store of bdk-cli (src/label_manager.rs): an in-memory collection  *)
(* of BIP-329 label records with upsert-by-reference, bulk import and a    *)
(* save that writes a temporary file and renames it onto labels.jsonl.     *)
(*                                                                         *)
(* The directory is a map from file names to files. A file's content is a  *)
(* sequence of tokens (the pieces of the JSON lines the codec writes), so  *)
(* that a write interrupted half way leaves a proper prefix of the         *)
(* encoding and decoding has to parse it back.                             *)
(***************************************************************************)
EXTENDS Integers, Sequences, FiniteSets, TLC

\* ------------------------------------------------------------------ bounds
\* Last millisecond of the clock in the model.
MaxMillis == 1
\* Longest incoming collection handed to import_labels.
MaxImportLen == 2
\* I/O failures and crashes the environment injects in one run.
MaxFaults == 1
\* Tokens one write call of export_to_file puts into the file.
ChunkLen == 3

\* ------------------------------------------------------------- data model
Stores == {1, 2}

None == <<>>
Some(x) == <<x>>

\* LabelRef: variant + identifier. The two references share the identifier
\* and differ by variant only.
LabelRef == {[kind |-> "addr", id |-> "x1"], [kind |-> "tx", id |-> "x1"]}

\* Label: AddressRecord {ref_, label} and TransactionRecord {ref_, label,
\* origin}; an address record has no origin.
Label ==
    {[kind |-> "addr", id |-> "x1", label |-> t, origin |-> None] :
        t \in {Some("Old"), Some("New")}}
    \cup
    {[kind |-> "tx", id |-> "x1", label |-> None, origin |-> Some("wpkh")]}

ref_(l) == [kind |-> l.kind, id |-> l.id]

\* Indices of the records of ls whose reference is r.
Matches(ls, r) == {i \in 1..Len(ls) : ref_(ls[i]) = r}

Min(S) == CHOOSE i \in S : \A j \in S : i <= j

\* bip329::Labels::set_label: add or update, keyed by the reference. The
\* record takes the place of the first stored record with its reference.
Labels_set_label(ls, l) ==
    IF Matches(ls, ref_(l)) = {}
    THEN Append(ls, l)
    ELSE [ls EXCEPT ![Min(Matches(ls, ref_(l)))] = l]

\* Variant of set_label that adds without looking for the reference.
set_label_fn_append(ls, l) == Append(ls, l)

\* LabelManager::set_label as a function of the collection.
set_label_fn(ls, l) == Labels_set_label(ls, l)

\* LabelManager::get_label_by_ref: iter().find(..), the first match.
get_label_by_ref(ls, r) ==
    IF Matches(ls, r) = {} THEN None ELSE Some(ls[Min(Matches(ls, r))])

\* Variant of the text lookup that gives the empty text for a record
\* without one.
get_label_text_by_ref_default(ls, r) ==
    IF get_label_by_ref(ls, r) = None
    THEN None
    ELSE IF get_label_by_ref(ls, r)[1].label = None
         THEN Some("")
         ELSE get_label_by_ref(ls, r)[1].label

\* LabelManager::get_label_text_by_ref: and_then over the record's label.
get_label_text_by_ref(ls, r) ==
    IF get_label_by_ref(ls, r) = None
    THEN None
    ELSE get_label_by_ref(ls, r)[1].label

\* Variant of the import loop that keeps a stored record instead of
\* overwriting it.
RECURSIVE import_loop_keep(_, _)
import_loop_keep(st, c) ==
    IF c = <<>>
    THEN st
    ELSE import_loop_keep(
            [labels |-> IF Matches(st.labels, ref_(Head(c))) = {}
                        THEN set_label_fn(st.labels, Head(c))
                        ELSE st.labels,
             count |-> st.count + 1], Tail(c))

\* Variant of the import loop that counts the new references only.
RECURSIVE import_loop_count_new(_, _)
import_loop_count_new(st, c) ==
    IF c = <<>>
    THEN st
    ELSE import_loop_count_new(
            [labels |-> set_label_fn(st.labels, Head(c)),
             count |-> IF Matches(st.labels, ref_(Head(c))) = {}
                       THEN st.count + 1 ELSE st.count], Tail(c))

\* The loop of LabelManager::import_labels: st is [labels, count].
RECURSIVE import_loop(_, _)
import_loop(st, c) ==
    IF c = <<>>
    THEN st
    ELSE import_loop([labels |-> set_label_fn(st.labels, Head(c)),
                      count |-> st.count + 1], Tail(c))

import_labels_fn(ls, c) == import_loop([labels |-> ls, count |-> 0], c)

\* ------------------------------------------------------------------ codec
Tok(k, v) == <<k, v>>
NL == Tok("\\n", "")

TypeName(kind) == IF kind = "addr" THEN "addr" ELSE "tx"

OptField(k, o) == IF o = None THEN <<>> ELSE <<Tok(k, o[1])>>

\* One JSON line of a record; absent optional fields are not written.
EncodeLabel(l) ==
    <<Tok("{", ""), Tok("type", TypeName(l.kind)), Tok("ref", l.id)>>
    \o OptField("label", l.label)
    \o (IF l.kind = "tx" THEN OptField("origin", l.origin) ELSE <<>>)
    \o <<Tok("}", "")>>

\* Labels::export: one line per record, in collection order.
RECURSIVE export(_)
export(ls) ==
    IF ls = <<>> THEN <<>> ELSE EncodeLabel(Head(ls)) \o <<NL>> \o export(Tail(ls))

\* The lines of a file's content (BufRead::lines): split at the newlines; a
\* last line without a newline is a line too.
RECURSIVE SplitLines(_, _)
SplitLines(content, cur) ==
    IF content = <<>>
    THEN (IF cur = <<>> THEN <<>> ELSE <<cur>>)
    ELSE IF Head(content) = NL
         THEN <<cur>> \o SplitLines(Tail(content), <<>>)
         ELSE SplitLines(Tail(content), Append(cur, Head(content)))

Field(line, k) ==
    LET at == {i \in 1..Len(line) : line[i][1] = k}
    IN  IF at = {} THEN None ELSE Some(line[Min(at)][2])

\* serde_json::from_str of one line: None when the line is not a record.
ParseLine(line) ==
    LET type == Field(line, "type")
        ref == Field(line, "ref")
    IN  IF /\ Len(line) >= 4
           /\ line[1] = Tok("{", "")
           /\ line[Len(line)] = Tok("}", "")
           /\ type \in {Some("addr"), Some("tx")}
           /\ ref # None
        THEN Some([kind |-> type[1],
                   id |-> ref[1],
                   label |-> Field(line, "label"),
                   origin |-> IF type = Some("tx")
                              THEN Field(line, "origin") ELSE None])
        ELSE None

RECURSIVE ParseLines(_)
ParseLines(lines) ==
    IF lines = <<>>
    THEN Some(<<>>)
    ELSE LET first == ParseLine(Head(lines))
             rest == ParseLines(Tail(lines))
         IN  IF first = None \/ rest = None
             THEN None
             ELSE Some(<<first[1]>> \o rest[1])

\* -------------------------------------------------------------- directory
NoFile == [exists |-> FALSE, data |-> <<>>]
FileOf(content) == [exists |-> TRUE, data |-> content]

\* What an open finds in the file f: nothing decodable (None), or a
\* collection, the empty one if there is no file.
Decoded(f) ==
    IF f.exists THEN ParseLines(SplitLines(f.data, <<>>)) ELSE Some(<<>>)

\* wallet_data_dir.join("labels.jsonl")
file_path == "labels.jsonl"
\* Variant of the temporary path that is the canonical path itself.
temp_path_direct(t) == file_path

\* format!(".labels.jsonl.tmp.{}", millis)
temp_path(t) == ".labels.jsonl.tmp." \o ToString(t)

Paths == {file_path} \cup {temp_path(t) : t \in 0..MaxMillis}

\* Outcomes of the read that are not decided by the file: the I/O faults.
Faults == {"none", "PermissionDenied", "Other"}

\* Labels::try_from_file.
try_from_file(d, path, fault) ==
    IF fault # "none"
    THEN [tag |-> "FileReadError", kind |-> fault, labels |-> <<>>]
    ELSE IF ~d[path].exists
    THEN [tag |-> "FileReadError", kind |-> "NotFound", labels |-> <<>>]
    ELSE LET parsed == ParseLines(SplitLines(d[path].data, <<>>))
         IN  IF parsed = None
             THEN [tag |-> "ParseError", kind |-> "Malformed", labels |-> <<>>]
             ELSE [tag |-> "Ok", kind |-> "", labels |-> parsed[1]]

\* Variant of the match that starts empty on every decode failure.
new_result_default(d) ==
    IF d.tag = "Ok"
    THEN [ok |-> TRUE, labels |-> d.labels]
    ELSE [ok |-> TRUE, labels |-> <<>>]

\* The match of LabelManager::new on the decode result.
new_result(d) ==
    IF d.tag = "Ok"
    THEN [ok |-> TRUE, labels |-> d.labels]
    ELSE IF d.tag = "FileReadError" /\ d.kind = "NotFound"
    THEN [ok |-> TRUE, labels |-> <<>>]
    ELSE [ok |-> FALSE, labels |-> <<>>]

\* ------------------------------------------------------------------ state
VARIABLES
    dir,     \* the wallet data directory: file name -> file
    now,     \* the system clock, in milliseconds since the epoch
    st,      \* per store: "none", "open", "failed" (new returned Err), "crashed"
    labels,  \* per store: LabelManager.labels
    pc,      \* per store: position inside save
    tmp,     \* per store: temp_path of the running save
    pre,     \* per store: labels.jsonl as it was when the last save started
    ret,     \* per store: what the last call returned
    hist,    \* per store, if recording: the set_label calls since an empty open
    faults   \* failures and crashes injected so far

vars == <<dir, now, st, labels, pc, tmp, pre, ret, hist, faults>>

NoRet == [op |-> "", val |-> "", count |-> 0, cleanup |-> "", cause |-> ""]
Ret(op, val) == [NoRet EXCEPT !.op = op, !.val = val]

\* on: calls are recorded; fresh: the store was opened empty and only
\* set_label was called since; replaced: a call hit a stored reference;
\* lastSet: the last record set per reference while fresh.
NoHist ==
    [on |-> FALSE, fresh |-> FALSE, replaced |-> FALSE,
     lastSet |-> [r \in LabelRef |-> None]]
Recording == [NoHist EXCEPT !.on = TRUE]

A_old == [kind |-> "addr", id |-> "x1", label |-> Some("Old"), origin |-> None]
A_new == [kind |-> "addr", id |-> "x1", label |-> Some("New"), origin |-> None]
T_meta == [kind |-> "tx", id |-> "x1", label |-> None, origin |-> Some("wpkh")]

\* labels.jsonl before the first open: absent, empty, two lines for the
\* same reference, a torn line. (Files with one record per reference come
\* about by save.)
InitFiles ==
    {NoFile,
     FileOf(<<>>),
     FileOf(export(<<A_old, A_new>>)),
     FileOf(SubSeq(export(<<A_old>>), 1, 3))}

InitStore ==
    /\ now = 0
    /\ \E f \in InitFiles : dir = [p \in Paths |-> IF p = file_path THEN f ELSE NoFile]
    /\ st = [s \in Stores |-> "none"]
    /\ labels = [s \in Stores |-> <<>>]
    /\ pc = [s \in Stores |-> "idle"]
    /\ tmp = [s \in Stores |-> file_path]
    /\ pre = [s \in Stores |-> NoFile]
    /\ ret = [s \in Stores |-> NoRet]
    /\ faults = 0

Init == InitStore /\ hist = [s \in Stores |-> NoHist]

\* The same start with the calls of each store recorded.
InitMem == InitStore /\ hist = [s \in Stores |-> Recording]

\* The environment makes a call fail, or kills the process, if b.
Inject(b) ==
    IF b THEN faults < MaxFaults /\ faults' = faults + 1 ELSE faults' = faults

\* A millisecond passes.
Tick ==
    /\ now < MaxMillis
    /\ now' = now + 1
    /\ UNCHANGED <<dir, st, labels, pc, tmp, pre, ret, hist, faults>>

\* Variant of new that loads the newest temporary file when there is one.
new_from_temp(s, fault) ==
    /\ st[s] # "open" \/ pc[s] = "idle"
    /\ LET temps == {t \in 0..MaxMillis : dir[temp_path(t)].exists}
           path == IF temps = {}
                   THEN file_path
                   ELSE temp_path(CHOOSE t \in temps : \A u \in temps : u <= t)
           decoded == try_from_file(dir, path, fault)
           r == new_result(decoded)
       IN /\ st' = [st EXCEPT ![s] = IF r.ok THEN "open" ELSE "failed"]
          /\ labels' = [labels EXCEPT ![s] = r.labels]
          /\ ret' = [ret EXCEPT ![s] =
                [Ret("new", IF r.ok THEN "Ok" ELSE "LabelError")
                    EXCEPT !.cause = IF decoded.tag = "Ok" THEN "Ok" ELSE decoded.kind]]
          /\ hist' = [hist EXCEPT ![s] =
                IF hist[s].on
                THEN [Recording EXCEPT !.fresh = r.ok /\ r.labels = <<>>]
                ELSE NoHist]
    /\ pc' = [pc EXCEPT ![s] = "idle"]
    /\ pre' = [pre EXCEPT ![s] = NoFile]
    /\ tmp' = [tmp EXCEPT ![s] = file_path]
    /\ Inject(fault # "none")
    /\ UNCHANGED <<dir, now>>

\* LabelManager::new(wallet_data_dir); a store that is open is dropped and
\* replaced by the new one.
new(s, fault) ==
    /\ st[s] # "open" \/ pc[s] = "idle"
    /\ LET decoded == try_from_file(dir, file_path, fault)
           r == new_result(decoded)
       IN /\ st' = [st EXCEPT ![s] = IF r.ok THEN "open" ELSE "failed"]
          /\ labels' = [labels EXCEPT ![s] = r.labels]
          /\ ret' = [ret EXCEPT ![s] =
                [Ret("new", IF r.ok THEN "Ok" ELSE "LabelError")
                    EXCEPT !.cause = IF decoded.tag = "Ok" THEN "Ok" ELSE decoded.kind]]
          /\ hist' = [hist EXCEPT ![s] =
                IF hist[s].on
                THEN [Recording EXCEPT !.fresh = r.ok /\ r.labels = <<>>]
                ELSE NoHist]
    /\ pc' = [pc EXCEPT ![s] = "idle"]
    /\ pre' = [pre EXCEPT ![s] = NoFile]
    /\ tmp' = [tmp EXCEPT ![s] = file_path]
    /\ Inject(fault # "none")
    /\ UNCHANGED <<dir, now>>

Idle(s) == st[s] = "open" /\ pc[s] = "idle"

\* The calls that take &self and read the collection: get_label_by_ref,
\* get_label_text_by_ref and get_all_labels, asked about the reference r.
lookup(s, r) ==
    /\ Idle(s)
    /\ ret' = [ret EXCEPT ![s] =
            [Ret("lookup", "") EXCEPT
                !.count = Len(labels[s]),
                !.cause = IF get_label_by_ref(labels[s], r) = None
                          THEN "None" ELSE "Some"]]
    /\ pre' = [pre EXCEPT ![s] = NoFile]
    /\ tmp' = [tmp EXCEPT ![s] = file_path]
    /\ UNCHANGED <<dir, now, st, labels, pc, hist, faults>>

\* Variant of set_label that writes the collection through to labels.jsonl.
set_label_write_through(s, l) ==
    /\ Idle(s)
    /\ labels' = [labels EXCEPT ![s] = set_label_fn(labels[s], l)]
    /\ dir' = [dir EXCEPT ![file_path] = FileOf(export(set_label_fn(labels[s], l)))]
    /\ ret' = [ret EXCEPT ![s] = Ret("set_label", "")]
    /\ hist' = [hist EXCEPT ![s] = IF hist[s].on THEN Recording ELSE NoHist]
    /\ pre' = [pre EXCEPT ![s] = NoFile]
    /\ tmp' = [tmp EXCEPT ![s] = file_path]
    /\ UNCHANGED <<now, st, pc, faults>>

\* LabelManager::set_label(label_to_set)
set_label(s, l) ==
    /\ Idle(s)
    /\ labels' = [labels EXCEPT ![s] = set_label_fn(labels[s], l)]
    /\ ret' = [ret EXCEPT ![s] = Ret("set_label", "")]
    /\ hist' = [hist EXCEPT ![s] =
            IF hist[s].fresh
            THEN [hist[s] EXCEPT
                    !.lastSet[ref_(l)] = Some(l),
                    !.replaced = @ \/ hist[s].lastSet[ref_(l)] # None]
            ELSE IF hist[s].on THEN Recording ELSE NoHist]
    /\ pre' = [pre EXCEPT ![s] = NoFile]
    /\ tmp' = [tmp EXCEPT ![s] = file_path]
    /\ UNCHANGED <<dir, now, st, pc, faults>>

\* Sequences over S of length at most n.
RECURSIVE SeqsUpTo(_, _)
SeqsUpTo(S, n) ==
    IF n = 0
    THEN {<<>>}
    ELSE SeqsUpTo(S, n - 1)
         \cup {Append(q, x) : q \in {q \in SeqsUpTo(S, n - 1) : Len(q) = n - 1}, x \in S}

\* The incoming collections of import_labels.
Incoming == SeqsUpTo(Label, MaxImportLen)

\* LabelManager::import_labels(new_labels)
import_labels(s, c) ==
    /\ Idle(s)
    /\ labels' = [labels EXCEPT ![s] = import_labels_fn(labels[s], c).labels]
    /\ ret' = [ret EXCEPT ![s] =
            [Ret("import_labels", "") EXCEPT !.count = import_labels_fn(labels[s], c).count]]
    /\ hist' = [hist EXCEPT ![s] =
            IF hist[s].on
            THEN [Recording EXCEPT !.replaced =
                    \E i \in 1..Len(c) : Matches(labels[s], ref_(c[i])) # {}]
            ELSE NoHist]
    /\ pre' = [pre EXCEPT ![s] = NoFile]
    /\ tmp' = [tmp EXCEPT ![s] = file_path]
    /\ UNCHANGED <<dir, now, st, pc, faults>>

\* Variant of the test without the look at the file.
NothingToSave_file(s) == labels[s] = <<>> /\ dir[file_path].exists

\* The test of line 65: labels.is_empty() && !file_path.exists().
NothingToSave(s) == labels[s] = <<>> /\ ~dir[file_path].exists

\* save, lines 65-68: nothing to save and no file.
save_skip(s) ==
    /\ Idle(s)
    /\ NothingToSave(s)
    /\ pre' = [pre EXCEPT ![s] = dir[file_path]]
    /\ ret' = [ret EXCEPT ![s] = Ret("save", "Ok")]
    /\ tmp' = [tmp EXCEPT ![s] = file_path]
    /\ UNCHANGED <<dir, now, st, labels, pc, hist, faults>>

\* Variant of the first step of save that creates the canonical file.
save_create_canon(s, ok) ==
    /\ Idle(s)
    /\ ~NothingToSave(s)
    /\ pre' = [pre EXCEPT ![s] = dir[file_path]]
    /\ tmp' = [tmp EXCEPT ![s] = temp_path(now)]
    /\ IF ok
       THEN /\ dir' = [dir EXCEPT ![file_path] = FileOf(<<>>)]
            /\ pc' = [pc EXCEPT ![s] = "created"]
            /\ ret' = [ret EXCEPT ![s] = Ret("save", "")]
       ELSE /\ ret' = [ret EXCEPT ![s] = [Ret("save", "LabelError") EXCEPT !.cause = "create"]]
            /\ UNCHANGED <<dir, pc>>
    /\ Inject(~ok)
    /\ UNCHANGED <<now, st, labels, hist>>

\* Variant of the first step of save that loads labels.jsonl again before
\* it saves.
save_create_reload(s, ok) ==
    /\ Idle(s)
    /\ ~NothingToSave(s)
    /\ labels' = [labels EXCEPT ![s] =
            IF Decoded(dir[file_path]) = None THEN labels[s] ELSE Decoded(dir[file_path])[1]]
    /\ pre' = [pre EXCEPT ![s] = dir[file_path]]
    /\ tmp' = [tmp EXCEPT ![s] = temp_path(now)]
    /\ IF ok
       THEN /\ dir' = [dir EXCEPT ![temp_path(now)] = FileOf(<<>>)]
            /\ pc' = [pc EXCEPT ![s] = "created"]
            /\ ret' = [ret EXCEPT ![s] = Ret("save", "")]
       ELSE /\ ret' = [ret EXCEPT ![s] = [Ret("save", "LabelError") EXCEPT !.cause = "create"]]
            /\ UNCHANGED <<dir, pc>>
    /\ Inject(~ok)
    /\ UNCHANGED <<now, st, hist>>

\* save, lines 70-96: the temporary path, named after the clock's reading,
\* and File::create on it.
save_create(s, ok) ==
    /\ Idle(s)
    /\ ~NothingToSave(s)
    /\ pre' = [pre EXCEPT ![s] = dir[file_path]]
    /\ tmp' = [tmp EXCEPT ![s] = temp_path(now)]
    /\ IF ok
       THEN /\ dir' = [dir EXCEPT ![temp_path(now)] = FileOf(<<>>)]
            /\ pc' = [pc EXCEPT ![s] = "created"]
            /\ ret' = [ret EXCEPT ![s] = Ret("save", "")]
       ELSE /\ ret' = [ret EXCEPT ![s] = [Ret("save", "LabelError") EXCEPT !.cause = "create"]]
            /\ UNCHANGED <<dir, pc>>
    /\ Inject(~ok)
    /\ UNCHANGED <<now, st, labels, hist>>

\* export_to_file under way: the temporary file holds the first n tokens.
save_export_partial(s, n) ==
    /\ st[s] = "open" /\ pc[s] = "created"
    /\ n \in 1..(Len(export(labels[s])) - 1)
    /\ n % ChunkLen = 0
    /\ dir' = [dir EXCEPT ![tmp[s]] = FileOf(SubSeq(export(labels[s]), 1, n))]
    /\ pc' = [pc EXCEPT ![s] = "writing"]
    /\ UNCHANGED <<now, st, labels, tmp, pre, ret, hist, faults>>

\* Variant of the export that writes the records of labels.jsonl merged with
\* the store's records.
save_export_done_merge(s) ==
    /\ st[s] = "open" /\ pc[s] \in {"created", "writing"}
    /\ LET onDisk == new_result(try_from_file(dir, file_path, "none")).labels
       IN  dir' = [dir EXCEPT ![tmp[s]] =
                FileOf(export(import_labels_fn(onDisk, labels[s]).labels))]
    /\ pc' = [pc EXCEPT ![s] = "written"]
    /\ UNCHANGED <<now, st, labels, tmp, pre, ret, hist, faults>>

\* export_to_file returned Ok: the temporary file holds the whole encoding.
save_export_done(s) ==
    /\ st[s] = "open" /\ pc[s] \in {"created", "writing"}
    /\ dir' = [dir EXCEPT ![tmp[s]] = FileOf(export(labels[s]))]
    /\ pc' = [pc EXCEPT ![s] = "written"]
    /\ UNCHANGED <<now, st, labels, tmp, pre, ret, hist, faults>>

\* export_to_file returned Err (lines 105-111): save returns, the temporary
\* file stays as far as it was written.
save_export_fail(s) ==
    /\ st[s] = "open" /\ pc[s] \in {"created", "writing"}
    /\ pc' = [pc EXCEPT ![s] = "idle"]
    /\ ret' = [ret EXCEPT ![s] = [Ret("save", "LabelError") EXCEPT !.cause = "export"]]
    /\ Inject(TRUE)
    /\ UNCHANGED <<dir, now, st, labels, tmp, pre, hist>>

\* Variant of the closure in which a failed removal is what save reports.
rename_failed_masked(d, t, rm_ok) ==
    [dir |-> IF rm_ok THEN [d EXCEPT ![t] = NoFile] ELSE d,
     ret |-> [Ret("save", "LabelError") EXCEPT
                !.cause = IF rm_ok THEN "rename" ELSE "remove",
                !.cleanup = IF rm_ok THEN "removed" ELSE "remove_failed"]]

\* The closure of lines 114-123: what save does when rename failed.
rename_failed(d, t, rm_ok) ==
    [dir |-> IF rm_ok THEN [d EXCEPT ![t] = NoFile] ELSE d,
     ret |-> [Ret("save", "LabelError") EXCEPT
                !.cause = "rename",
                !.cleanup = IF rm_ok THEN "removed" ELSE "remove_failed"]]

\* Variant of the rename that drops the temporary file and leaves the
\* canonical file alone.
save_rename_drop(s) ==
    /\ st[s] = "open" /\ pc[s] = "written"
    /\ dir[tmp[s]].exists
    /\ dir' = [dir EXCEPT ![tmp[s]] = NoFile]
    /\ pc' = [pc EXCEPT ![s] = "idle"]
    /\ ret' = [ret EXCEPT ![s] = Ret("save", "Ok")]
    /\ UNCHANGED <<now, st, labels, tmp, pre, hist, faults>>

\* Variant of the rename that copies the temporary file onto labels.jsonl
\* and leaves it in the directory.
save_rename_copy(s) ==
    /\ st[s] = "open" /\ pc[s] = "written"
    /\ dir[tmp[s]].exists
    /\ dir' = [dir EXCEPT ![file_path] = dir[tmp[s]]]
    /\ pc' = [pc EXCEPT ![s] = "idle"]
    /\ ret' = [ret EXCEPT ![s] = Ret("save", "Ok")]
    /\ UNCHANGED <<now, st, labels, tmp, pre, hist, faults>>

\* std::fs::rename(temp_path, file_path) succeeds.
save_rename(s) ==
    /\ st[s] = "open" /\ pc[s] = "written"
    /\ dir[tmp[s]].exists
    /\ dir' = [dir EXCEPT ![file_path] = dir[tmp[s]], ![tmp[s]] = NoFile]
    /\ pc' = [pc EXCEPT ![s] = "idle"]
    /\ ret' = [ret EXCEPT ![s] = Ret("save", "Ok")]
    /\ UNCHANGED <<now, st, labels, tmp, pre, hist, faults>>

\* std::fs::rename fails; remove_file on the temporary file succeeds or not
\* (it cannot succeed on a file that is not there).
save_rename_fail(s, rm_ok) ==
    /\ st[s] = "open" /\ pc[s] = "written"
    /\ rm_ok => dir[tmp[s]].exists
    /\ dir' = rename_failed(dir, tmp[s], rm_ok).dir
    /\ ret' = [ret EXCEPT ![s] = rename_failed(dir, tmp[s], rm_ok).ret]
    /\ pc' = [pc EXCEPT ![s] = "idle"]
    /\ Inject(TRUE)
    /\ UNCHANGED <<now, st, labels, tmp, pre, hist>>

\* The process dies inside save; the directory stays as it is.
crash(s) ==
    /\ st[s] = "open" /\ pc[s] \in {"created", "writing", "written"}
    /\ st' = [st EXCEPT ![s] = "crashed"]
    /\ Inject(TRUE)
    /\ UNCHANGED <<dir, now, labels, pc, tmp, pre, ret, hist>>

\* No collection of the model encodes to more tokens than this.
MaxEncodedLen == 8 * (Cardinality(LabelRef) + 2)

\* A store that is opened, changed record by record and saved. (An import
\* changes the collection by the same upsert, one record after the other.)
StoreNext(s) ==
    \/ \E fault \in Faults : new(s, fault)
    \/ \E l \in Label : set_label(s, l)
    \/ save_skip(s)
    \/ \E ok \in BOOLEAN : save_create(s, ok)
    \/ \E n \in 1..MaxEncodedLen : save_export_partial(s, n)
    \/ save_export_done(s)
    \/ save_export_fail(s)
    \/ save_rename(s)
    \/ \E rm_ok \in BOOLEAN : save_rename_fail(s, rm_ok)
    \/ crash(s)

\* One store on the directory.
Next == Tick \/ StoreNext(1)

Spec == Init /\ [][Next]_vars

\* The store in memory: new, set_label and import_labels, no save; the
\* directory stays as it was found.
NextMem ==
    \/ \E fault \in Faults : new(1, fault)
    \/ \E l \in Label : set_label(1, l)
    \/ \E c \in Incoming : import_labels(1, c)

SpecMem == InitMem /\ [][NextMem]_vars

\* std::fs::rename fails because the temporary path is not in the directory
\* (a save that chose the same name has renamed it away); remove_file finds
\* nothing to remove either.
save_rename_lost(s) ==
    /\ st[s] = "open" /\ pc[s] = "written"
    /\ ~dir[tmp[s]].exists
    /\ ret' = [ret EXCEPT ![s] = rename_failed(dir, tmp[s], FALSE).ret]
    /\ pc' = [pc EXCEPT ![s] = "idle"]
    /\ UNCHANGED <<dir, now, st, labels, tmp, pre, hist, faults>>

\* The records each of two stores sets: the stores are changed
\* independently, and each sets a record the other never sets.
Own(s) == IF s = 1 THEN {A_new} ELSE {T_meta}

\* One of two stores on the same directory: it is opened once, changed and
\* saved any number of times; the files are written as the two stores'
\* steps come, by path.
Store2Next(s) ==
    \/ st[s] = "none" /\ new(s, "none")
    \/ \E l \in Own(s) : set_label(s, l)
    \/ save_create(s, TRUE)
    \/ \E n \in 1..MaxEncodedLen : save_export_partial(s, n)
    \/ save_export_done(s)
    \/ save_rename(s)
    \/ save_rename_lost(s)

\* Two stores, their steps interleaved in any order.
Next2 == Tick \/ \E s \in Stores : Store2Next(s)

Spec2 == Init /\ [][Next2]_vars

\* One store in a process that may be killed inside save: it is opened,
\* changed and saved, and no call fails; a store that was killed can only be
\* opened again.
NextCrash ==
    \/ Tick
    \/ new(1, "none")
    \/ \E l \in Label : set_label(1, l)
    \/ save_skip(1)
    \/ save_create(1, TRUE)
    \/ \E n \in 1..MaxEncodedLen : save_export_partial(1, n)
    \/ save_export_done(1)
    \/ save_rename(1)
    \/ crash(1)

SpecCrash == Init /\ [][NextCrash]_vars

\* Another process saves its collection c: its rename puts the whole
\* encoding of c at labels.jsonl.
other_save(c) ==
    /\ dir' = [dir EXCEPT ![file_path] = FileOf(export(c))]
    /\ UNCHANGED <<now, st, labels, pc, tmp, pre, ret, hist, faults>>

\* One store through all its calls: it is opened, read, changed by
\* set_label and import_labels, and saved, with save failing at any of its
\* steps, while another process saves to the same directory.
NextApi ==
    \/ \E fault \in Faults : new(1, fault)
    \/ \E l \in Label : set_label(1, l)
    \/ \E c \in Incoming : import_labels(1, c)
    \/ \E r \in LabelRef : lookup(1, r)
    \/ save_skip(1)
    \/ \E ok \in BOOLEAN : save_create(1, ok)
    \/ save_export_done(1)
    \/ save_export_fail(1)
    \/ save_rename(1)
    \/ \E rm_ok \in BOOLEAN : save_rename_fail(1, rm_ok)
    \/ \E c \in SeqsUpTo(Label, 1) : other_save(c)

SpecApi == Init /\ [][NextApi]_vars

\* ----------------------------------------------------------------- claims
R_addr == [kind |-> "addr", id |-> "x1"]
R_tx == [kind |-> "tx", id |-> "x1"]

RecordSet(ls) == {ls[i] : i \in 1..Len(ls)}
RefsOf(c) == {ref_(c[i]) : i \in 1..Len(c)}
Max(S) == CHOOSE i \in S : \A j \in S : j <= i
\* The last record of c with reference r.
LastWith(c, r) == c[Max(Matches(c, r))]

\* C1: while a save runs, after it returned and after a crash inside it,
\* labels.jsonl is what it was when the save started or the whole encoding
\* of the store's collection, never a part of an encoding.
C1_AtomicCanonical ==
    \A s \in Stores :
        (pc[s] # "idle" \/ ret[s].op = "save") =>
            dir[file_path] \in {pre[s], FileOf(export(labels[s]))}

\* A save is half way through its temporary file while labels.jsonl holds
\* an older collection.
C1_Witness ==
    /\ st[1] = "open" /\ pc[1] = "writing"
    /\ dir[file_path].exists
    /\ dir[file_path] # FileOf(export(labels[1]))
    /\ dir[tmp[1]].data # <<>>
    /\ dir[tmp[1]].data # export(labels[1])

\* C2: a store holds at most one record per reference.
C2_OneRecordPerRef ==
    \A s \in Stores :
        \A i, j \in 1..Len(labels[s]) :
            ref_(labels[s][i]) = ref_(labels[s][j]) => i = j

\* C3: on a store opened empty and changed by set_label only, the lookup of
\* a reference gives the last record set for it, nothing if none was set,
\* and the size is the number of references set.
C3_LastSetWins ==
    \A s \in Stores :
        (st[s] = "open" /\ hist[s].fresh) =>
            /\ \A r \in LabelRef : get_label_by_ref(labels[s], r) = hist[s].lastSet[r]
            /\ Len(labels[s]) = Cardinality({r \in LabelRef : hist[s].lastSet[r] # None})

\* Both references were set and one of them more than once.
C3_Witness ==
    /\ st[1] = "open" /\ hist[1].fresh /\ hist[1].replaced
    /\ Len(labels[1]) = 2
    /\ get_label_text_by_ref(labels[1], R_addr) = Some("New")

\* C4: an open (whose read of the file does not fail) right after a
\* successful save of a non-empty collection gives a store with the same set
\* of records.
C4_RoundTrip ==
    [][\A s \in Stores :
        (/\ st[s] = "open" /\ pc[s] = "idle"
         /\ ret[s] = Ret("save", "Ok")
         /\ labels[s] # <<>>
         /\ ret'[s].op = "new"
         /\ ret'[s].cause \notin (Faults \ {"none"}))
        => (st'[s] = "open" /\ RecordSet(labels'[s]) = RecordSet(labels[s]))]_vars

\* A store loaded two records of which one, the transaction record, is in
\* no initial file: it was saved and read back.
C4_Witness ==
    /\ st[1] = "open" /\ ret[1].op = "new" /\ ret[1].cause = "Ok"
    /\ RecordSet(labels[1]) = {A_new, T_meta}

\* C5: when save returned because the temporary file could not be created
\* or the export failed, it returned an error and labels.jsonl is what it
\* was when the save started.
C5_FailedExportKeepsCanonical ==
    \A s \in Stores :
        (ret[s].op = "save" /\ ret[s].cause \in {"create", "export"}) =>
            /\ ret[s].val = "LabelError"
            /\ pc[s] = "idle"
            /\ dir[file_path] = pre[s]

\* The export failed half way, the canonical file exists and differs from
\* the collection being saved.
C5_Witness ==
    /\ ret[1].op = "save" /\ ret[1].cause = "export"
    /\ dir[file_path].exists
    /\ dir[file_path] # FileOf(export(labels[1]))
    /\ dir[tmp[1]].exists /\ dir[tmp[1]].data # <<>>

\* C6: after import(c) a reference of c looks up to the last record of c
\* with it, any other reference looks up as before, and the collection grew
\* by the number of references of c that were not stored.
C6_ImportPrecedence ==
    [][\A s \in Stores : \A c \in Incoming :
        import_labels(s, c) =>
            /\ \A r \in LabelRef :
                get_label_by_ref(labels'[s], r) =
                    IF r \in RefsOf(c)
                    THEN Some(LastWith(c, r))
                    ELSE get_label_by_ref(labels[s], r)
            /\ Len(labels'[s]) = Len(labels[s])
                + Cardinality({r \in RefsOf(c) : Matches(labels[s], r) = {}})]_vars

\* An import of one record overwrote the stored address record and left the
\* other record alone.
C6_Witness ==
    /\ ret[1].op = "import_labels" /\ ret[1].count = 1 /\ hist[1].replaced
    /\ labels[1] = <<T_meta, A_new>>

\* C7: import(c) returns the number of records of c.
C7_ImportCount ==
    [][\A s \in Stores : \A c \in Incoming :
        import_labels(s, c) => ret'[s].count = Len(c)]_vars

\* An import returned 2 and the store holds one record: both records of c
\* had the same reference.
C7_Witness ==
    /\ ret[1].op = "import_labels" /\ ret[1].count = 2
    /\ Len(labels[1]) = 1

\* C8: an open (whose read does not fail otherwise) of a directory without
\* labels.jsonl gives an empty store, and a save
\* called with an empty collection and no labels.jsonl returns Ok and
\* leaves the directory as it is.
C8_FreshStore ==
    [][\A s \in Stores :
        /\ (/\ ret'[s].op = "new" /\ ret'[s] # ret[s]
            /\ ret'[s].cause \notin (Faults \ {"none"})
            /\ ~dir[file_path].exists) =>
                (st'[s] = "open" /\ labels'[s] = <<>> /\ dir' = dir)
        /\ (/\ st[s] = "open" /\ pc[s] = "idle"
            /\ labels[s] = <<>> /\ ~dir[file_path].exists
            /\ ret'[s].op = "save" /\ ret'[s] # ret[s]) =>
                (dir' = dir /\ ret'[s] = Ret("save", "Ok") /\ pc'[s] = "idle")]_vars

\* A save returned Ok on an empty store and the directory is empty.
C8_Witness ==
    /\ st[1] = "open" /\ labels[1] = <<>>
    /\ ret[1] = Ret("save", "Ok")
    /\ \A p \in Paths : ~dir[p].exists

\* C9: right after new, the store holds the decoded collection if the
\* decode succeeded, is empty if the file was not found, and there is no
\* store but a load error after any other decode failure.
C9_OpenClassifies ==
    \A s \in Stores :
        ret[s].op = "new" =>
            /\ ret[s].cause = "Ok" =>
                /\ st[s] = "open" /\ ret[s].val = "Ok"
                /\ dir[file_path].exists
                /\ ParseLines(SplitLines(dir[file_path].data, <<>>)) = Some(labels[s])
            /\ ret[s].cause = "NotFound" =>
                /\ st[s] = "open" /\ ret[s].val = "Ok"
                /\ ~dir[file_path].exists
                /\ labels[s] = <<>>
            /\ ret[s].cause \notin {"Ok", "NotFound"} =>
                /\ st[s] = "failed" /\ ret[s].val = "LabelError"
            /\ ret[s].cause = "Malformed" =>
                /\ dir[file_path].exists
                /\ ParseLines(SplitLines(dir[file_path].data, <<>>)) = None

\* new returned a load error on a file with a torn line.
C9_Witness ==
    /\ ret[1].op = "new" /\ ret[1].cause = "Malformed"
    /\ st[1] = "failed"
    /\ dir[file_path].data # <<>>

\* C10: when the rename failed, save tried to remove the temporary file,
\* returned the rename error whether or not that worked, and labels.jsonl is
\* what it was when the save started.
C10_RenameFailure ==
    \A s \in Stores :
        (ret[s].op = "save" /\ ret[s].cleanup # "") =>
            /\ ret[s].val = "LabelError" /\ ret[s].cause = "rename"
            /\ ret[s].cleanup \in {"removed", "remove_failed"}
            /\ ret[s].cleanup = "removed" => ~dir[tmp[s]].exists
            /\ dir[file_path] = pre[s]
            /\ pc[s] = "idle"

\* The rename failed and so did the removal: the temporary file is there.
C10_Witness ==
    /\ ret[1].op = "save" /\ ret[1].cause = "rename"
    /\ ret[1].cleanup = "remove_failed"
    /\ dir[tmp[1]].exists
    /\ dir[file_path] # FileOf(export(labels[1]))

\* C11: while both stores are inside save or have just returned from it,
\* labels.jsonl is what it was when one of the two saves started (absent
\* included) or the whole encoding of one of the two stores' collections.
C11_NoTornCanonical ==
    (\A s \in Stores : st[s] = "open" /\ (pc[s] # "idle" \/ ret[s].op = "save")) =>
        dir[file_path] \in
            {pre[s] : s \in Stores} \cup {FileOf(export(labels[s])) : s \in Stores}

\* C12: when a save of store s returns Ok while the other store's last call
\* is a save that returned Ok, labels.jsonl is the whole encoding of the
\* collection of s: it decodes to the records of s, and a record that only
\* the other store holds is not in it.
C12_LastWriterWins ==
    [][\A s, t \in Stores :
        (/\ s # t
         /\ st[t] = "open" /\ pc[t] = "idle" /\ ret[t] = Ret("save", "Ok")
         /\ st[s] = "open" /\ pc[s] = "written"
         /\ pc'[s] = "idle" /\ ret'[s] = Ret("save", "Ok"))
        => /\ dir'[file_path] = FileOf(export(labels[s]))
           /\ LET onDisk == ParseLines(SplitLines(dir'[file_path].data, <<>>))
              IN  /\ onDisk # None
                  /\ RecordSet(onDisk[1]) = RecordSet(labels[s])
                  /\ \A l \in RecordSet(labels[t]) \ RecordSet(labels[s]) :
                        l \notin RecordSet(onDisk[1])]_vars

\* Both saves started on the same labels.jsonl, both returned Ok, store 1
\* renamed last: the file is store 1's collection, without the record that
\* only store 2 holds.
C12_Witness ==
    /\ ret[1] = Ret("save", "Ok") /\ ret[2] = Ret("save", "Ok")
    /\ pre[1] = pre[2]
    /\ A_new \in RecordSet(labels[1]) /\ A_new \notin RecordSet(labels[2])
    /\ T_meta \in RecordSet(labels[2]) /\ T_meta \notin RecordSet(labels[1])
    /\ dir[file_path] = FileOf(export(labels[1]))

\* C13: after a crash between the export and the rename, labels.jsonl is
\* what it was when the save started, the temporary file is in the directory
\* with the whole encoding, and an open (whose read does not fail) leaves
\* the directory alone and gives the collection labels.jsonl held when the
\* save started.
C13_CrashRecovery ==
    [][\A s \in Stores :
        (st[s] = "crashed" /\ pc[s] = "written") =>
            /\ dir[file_path] = pre[s]
            /\ tmp[s] # file_path
            /\ dir[tmp[s]] = FileOf(export(labels[s]))
            /\ (ret'[s].op = "new" /\ ret'[s].cause \notin (Faults \ {"none"})) =>
                /\ dir' = dir
                /\ st'[s] = "open"
                /\ Some(labels'[s]) = Decoded(pre[s])]_vars

\* The store was opened again after a crash: a temporary file holds the
\* collection that was being saved, the address record included, and the
\* store holds what labels.jsonl held before, the transaction record alone.
C13_Witness ==
    /\ st[1] = "open" /\ ret[1].op = "new" /\ faults > 0
    /\ labels[1] = <<T_meta>>
    /\ dir[file_path] = FileOf(export(<<T_meta>>))
    /\ \E t \in 0..MaxMillis : dir[temp_path(t)] = FileOf(export(<<T_meta, A_new>>))

\* C14: new, set_label, import_labels and the reading calls leave the
\* directory as it is, and what an open gives is what labels.jsonl holds,
\* whatever the store held in memory.
C14_OnlySaveWrites ==
    [][\A s \in Stores :
        /\ dir' # dir =>
            ~(\/ \E fault \in Faults : new(s, fault)
              \/ \E l \in Label : set_label(s, l)
              \/ \E c \in Incoming : import_labels(s, c)
              \/ \E r \in LabelRef : lookup(s, r))
        /\ (/\ st'[s] = "open" /\ ret'[s].op = "new"
            /\ \E fault \in Faults : new(s, fault)) =>
                Some(labels'[s]) = Decoded(dir[file_path])]_vars

\* The store saved the transaction record; an import of two records then
\* put an address record beside it in memory, and labels.jsonl still holds
\* the transaction record alone.
C14_Witness ==
    /\ ret[1].op = "import_labels" /\ ret[1].count = 2
    /\ RecordSet(labels[1]) = {T_meta, A_new}
    /\ dir[file_path] = FileOf(export(<<T_meta>>))

\* C15: the collection of a store changes in a step of set_label, of
\* import_labels or of an open and in no other; a step of save, whatever its
\* outcome, a reading call and a change of labels.jsonl by another process
\* leave the collection and every lookup as they were.
C15_MemoryFrame ==
    [][\A s \in Stores :
        /\ labels'[s] # labels[s] =>
            (\/ ret'[s].op = "set_label" /\ \E l \in Label : set_label(s, l)
             \/ ret'[s].op = "new" /\ \E fault \in Faults : new(s, fault)
             \/ ret'[s].op = "import_labels"
                    /\ \E c \in Incoming :
                        /\ ret'[s].count = Len(c)
                        /\ import_labels(s, c))
        /\ (\/ ret'[s].op \in {"save", "lookup"}
            \/ dir'[file_path] # dir[file_path]) =>
                /\ labels'[s] = labels[s]
                /\ \A r \in LabelRef :
                    /\ get_label_by_ref(labels'[s], r) = get_label_by_ref(labels[s], r)
                    /\ get_label_text_by_ref(labels'[s], r)
                            = get_label_text_by_ref(labels[s], r)]_vars

\* A save of the store failed at the rename while another process had put
\* its own file at labels.jsonl: the store still holds its address record
\* and not the record of the file.
C15_Witness ==
    /\ st[1] = "open" /\ ret[1].op = "save" /\ ret[1].cause = "rename"
    /\ labels[1] = <<A_new>>
    /\ dir[file_path] = FileOf(export(<<T_meta>>))

\* The texts a record of the model carries.
Texts == {"Old", "New"}

\* C16: the text lookup of r gives t exactly when the record lookup of r
\* gives a record with the text t; it gives nothing when no record has the
\* reference r and when the record found has no text. The record found has
\* the reference r. Right after an open that found no labels.jsonl both
\* lookups give nothing for every reference.
C16_TextLookup ==
    \A s \in Stores : st[s] = "open" =>
        /\ \A r \in LabelRef :
            LET rec == get_label_by_ref(labels[s], r)
                txt == get_label_text_by_ref(labels[s], r)
            IN  /\ txt \in {None} \cup {Some(t) : t \in Texts}
                /\ \A t \in Texts :
                    txt = Some(t) <=> (rec # None /\ rec[1].label = Some(t))
                /\ (\A i \in 1..Len(labels[s]) : ref_(labels[s][i]) # r) =>
                    (rec = None /\ txt = None)
                /\ rec # None =>
                    /\ ref_(rec[1]) = r
                    /\ rec[1] \in RecordSet(labels[s])
                    /\ rec[1].label = None => txt = None
        /\ (ret[s].op = "new" /\ ret[s].cause = "NotFound") =>
            \A r \in LabelRef :
                /\ get_label_by_ref(labels[s], r) = None
                /\ get_label_text_by_ref(labels[s], r) = None

\* A reading call on a store that holds the transaction record, which has
\* no text, and an address record with text: the record lookup finds both,
\* the text lookup gives a text for the address only.
C16_Witness ==
    /\ st[1] = "open" /\ ret[1].op = "lookup" /\ ret[1].cause = "Some"
    /\ get_label_by_ref(labels[1], R_tx) = Some(T_meta)
    /\ get_label_text_by_ref(labels[1], R_tx) = None
    /\ get_label_by_ref(labels[1], R_addr) = Some(A_new)
    /\ get_label_text_by_ref(labels[1], R_addr) = Some("New")

\* The temporary paths of the directory.
TempPaths == Paths \ {file_path}

\* C17: a temporary file comes into the directory by the File::create of a
\* save and goes by that save's rename or by its cleanup. When a save
\* returns Ok its temporary file is not in the directory, and on the path
\* that skips the save the directory is not touched. When a save ends with
\* its temporary file still there, it ended with a failed export, with a
\* failed rename whose cleanup failed, or with a crash.
C17_TempLifecycle ==
    [][/\ \A p \in TempPaths :
            /\ (~dir[p].exists /\ dir'[p].exists) =>
                \E s \in Stores :
                    pc[s] = "idle" /\ pc'[s] = "created" /\ tmp'[s] = p
            /\ (dir[p].exists /\ ~dir'[p].exists) =>
                \E s \in Stores :
                    /\ pc[s] = "written" /\ tmp[s] = p
                    /\ ret'[s] = Ret("save", "Ok") \/ ret'[s].cleanup = "removed"
       /\ \A s \in Stores :
            /\ (pc'[s] = "idle" /\ ret'[s] = Ret("save", "Ok")) =>
                IF pc[s] = "written"
                THEN tmp[s] \in TempPaths /\ ~dir'[tmp[s]].exists
                ELSE ret'[s] # ret[s] => dir' = dir
            /\ (/\ st[s] = "open" /\ pc[s] # "idle"
                /\ pc'[s] = "idle" \/ st'[s] = "crashed"
                /\ dir'[tmp[s]].exists) =>
                    \/ st'[s] = "crashed"
                    \/ ret'[s].cause = "export"
                    \/ ret'[s].cause = "rename" /\ ret'[s].cleanup = "remove_failed"]_vars

\* A save returned Ok and its temporary file is gone; the temporary file of
\* an earlier save, which did not get to its rename, is still there.
C17_Witness ==
    /\ st[1] = "open" /\ pc[1] = "idle" /\ ret[1] = Ret("save", "Ok")
    /\ tmp[1] = temp_path(1) /\ ~dir[temp_path(1)].exists
    /\ dir[temp_path(0)].exists
    /\ dir[file_path] = FileOf(export(labels[1]))

====
